---- MODULE Spec2Model ----
(***************************************************************************)
(* Model of the EduMate identity subsystem: src/auth/auth_manager.py       *)
(* (AuthManager over the SQLite file edumate_users.db) and the caller-side *)
(* validators of src/auth/app.py.                                          *)
(*                                                                         *)
(* Storage.  `db` is the committed content of the database file, one       *)
(* sequence of rows per table in rowid order (AUTOINCREMENT ids, rows are  *)
(* never reordered).  Every AuthManager method opens its own connection;   *)
(* Python's sqlite3 opens a transaction implicitly before the first        *)
(* INSERT/UPDATE/DELETE of a connection and SQLite lets one connection     *)
(* write at a time: `txn_owner` is the caller holding the write lock and   *)
(* `txn_db` its uncommitted view.  A SELECT outside a transaction reads    *)
(* `db`.  A write statement of another caller waits while the lock is      *)
(* held (SQLite's busy handler); the wait is modelled as the action being  *)
(* disabled.                                                               *)
(*                                                                         *)
(* Time.  `now` is the true instant in UTC, [hr, frac]: whole hours since  *)
(* an epoch plus the sub-second part (0, or 5 for .5 s).  `tz` is the      *)
(* offset of the process's local time zone in hours: datetime.now() reads  *)
(* the local wall clock, SQLite's CURRENT_TIMESTAMP reads UTC truncated to *)
(* whole seconds.  Timestamps are stored as text and compared as text.     *)
(*                                                                         *)
(* Callers.  `issued` lists, in the order of their return, the tokens      *)
(* create_remember_token has handed to its callers: the account, the       *)
(* instant of the call, and whether the account has logged out since.      *)
(* `saved` is the set of user_ids for which a save_student_profile call    *)
(* has returned success.                                                   *)
(* Columns no method reads (created_at, updated_at) are left out.          *)
(*                                                                         *)
(* Sessions.  `session[c]` is caller c's st.session_state: the keys        *)
(* authenticated, user_data and remember_token, with the values the pages  *)
(* give them when they are absent.  The AuthManager methods leave it alone *)
(* (logout_user, which clears it, excepted); the handlers of the pages     *)
(* (launcher.py, app.py, student_profile.py) call the methods and set it.  *)
(***************************************************************************)
EXTENDS Integers, Sequences, FiniteSets, TLC

VARIABLES db, txn_owner, txn_db, pc, frame, now, tz, entropy, issued,
          saved, session, form, agent

vars == <<db, txn_owner, txn_db, pc, frame, now, tz, entropy, issued,
          saved, session, form, agent>>

(***************************************************************************)
(* Bounds of the model.                                                    *)
(***************************************************************************)
\* tokens secrets.token_urlsafe hands out in one behaviour
MaxTokens == 2
\* the clock is sampled at hours 0..MaxEarlyHr after the epoch ...
MaxEarlyHr == 1
\* ... and, in SpecClock, from one hour before the 30-day mark to
\* MaxLateHr hours after it
MaxLateHr == 2

(***************************************************************************)
(* Program constants.                                                      *)
(***************************************************************************)
\* timedelta(days=30)
TokenDays == 30
\* validate_password: len(password) < 6 is rejected
MinPasswordLen == 6
\* validate_email: the top-level domain has {2,} letters
MinTldLen == 2
\* CHECK(year >= 1 AND year <= 4)
MinYear == 1
MaxYear == 4

HoursPerDay == 24

(***************************************************************************)
(* Inputs.  Emails, passwords and profile texts are sequences of           *)
(* characters, so that the validators of app.py and student_profile.py     *)
(* can be computed on them.                                                *)
(***************************************************************************)
Callers == {1, 2}

EmailA == <<"a", "@", "x", ".", "c", "o">>
EmailB == <<"b", "@", "x", ".", "c", "o">>
Emails == {EmailA, EmailB}

PwSecret == <<"s", "e", "c", "r", "e", "t">>
PwShort == <<"p", "w">>
Passwords == {PwSecret, PwShort}

\* profile texts
Ann == <<"A", "n", "n">>
Bo == <<"B", "o">>

Profile(name, year) ==
    [name |-> name, year |-> year, course |-> <<"C", "S">>,
     interests |-> <<"A", "I">>, goals |-> <<"M", "L">>,
     hobbies |-> <<"G", "o">>, learning_style |-> <<"V", "i", "s">>,
     current_skills |-> <<"P", "y">>]

\* a profile that differs from Profile(Ann, 2) in every field
ProfileBo ==
    [name |-> Bo, year |-> 3, course |-> <<"E", "E">>,
     interests |-> <<"D", "B">>, goals |-> <<"O", "S">>,
     hobbies |-> <<"S", "k", "i">>, learning_style |-> <<"M", "i", "x">>,
     current_skills |-> <<"C">>]

ProfileInputs ==
    {Profile(Ann, 2), Profile(Bo, 4), Profile(Ann, 5), Profile(Bo, 0),
     ProfileBo}

\* user_id arguments: the ids the users table can hand out
UserIds == 1..Cardinality(Emails)

\* token arguments: 0 was never issued
TokenArgs == 0..MaxTokens

Fracs == {0, 5}

(***************************************************************************)
(* app.py: validate_email, validate_password                               *)
(***************************************************************************)
Letters == {"a", "b", "c", "e", "o", "p", "r", "s", "t", "w", "x"}
Digits == {"1"}
LocalChars == Letters \cup Digits \cup {".", "_", "%", "+", "-"}
DomainChars == Letters \cup Digits \cup {".", "-"}

AllIn(s, lo, hi, chars) == \A k \in lo..hi : s[k] \in chars

\* ^[a-zA-Z0-9._%+-]+@[a-zA-Z0-9.-]+\.[a-zA-Z]{2,}$
validate_email(email) ==
    \E i \in 1..Len(email) : \E j \in 1..Len(email) :
        /\ 1 < i /\ i + 1 < j
        /\ email[i] = "@" /\ email[j] = "."
        /\ AllIn(email, 1, i - 1, LocalChars)
        /\ AllIn(email, i + 1, j - 1, DomainChars)
        /\ Len(email) - j >= MinTldLen
        /\ AllIn(email, j + 1, Len(email), Letters)

validate_password(password) == ~(Len(password) < MinPasswordLen)

(***************************************************************************)
(* student_profile.py: the checks of the profile form                      *)
(***************************************************************************)
Whitespace == {" "}

\* str.strip(): leading and trailing whitespace removed
strip(s) ==
    LET Kept == {k \in 1..Len(s) : s[k] \notin Whitespace}
    IN  IF Kept = {}
        THEN <<>>
        ELSE SubSeq(s, CHOOSE k \in Kept : \A j \in Kept : k <= j,
                       CHOOSE k \in Kept : \A j \in Kept : j <= k)

\* required_fields of the form
required_fields ==
    {"name", "course", "interests", "goals", "hobbies", "learning_style",
     "current_skills"}

\* [field for field, value in required_fields.items() if not value.strip()]
missing_fields(profile_data) ==
    {f \in required_fields : strip(profile_data[f]) = <<>>}

\* profile texts that strip() empties
Blanks == {<<>>, <<" ", " ">>}

\* Profile(Ann, 2) with one required field left empty or filled with spaces
BlankInputs ==
    {[Profile(Ann, 2) EXCEPT ![f] = b] : f \in required_fields, b \in Blanks}

(***************************************************************************)
(* Clock and timestamps                                                    *)
(***************************************************************************)
\* datetime.now(): the local wall clock, microseconds kept
datetime_now == [hr |-> now.hr + tz, frac |-> now.frac]

\* datetime + timedelta(days=30)
PlusTokenDays(t) == [hr |-> t.hr + TokenDays * HoursPerDay, frac |-> t.frac]

\* sqlite3's default adapter: datetime.isoformat(" "), which prints the
\* fraction only when it is not zero.  Text is a sequence of fields.
adapt_datetime(t) == IF t.frac = 0 THEN <<t.hr>> ELSE <<t.hr, t.frac>>

\* SQLite's CURRENT_TIMESTAMP: 'YYYY-MM-DD HH:MM:SS' in UTC, no fraction
CURRENT_TIMESTAMP == <<now.hr>>

\* SQLite's comparison of two TEXT values (BINARY collation, memcmp): the
\* first differing field decides, and a proper prefix is the smaller one
TextGreater(a, b) ==
    LET n == IF Len(a) < Len(b) THEN Len(a) ELSE Len(b)
        Diff == {k \in 1..n : a[k] # b[k]}
    IN  IF Diff = {}
        THEN Len(a) > Len(b)
        ELSE LET k == CHOOSE d \in Diff : \A d2 \in Diff : d <= d2
             IN  a[k] > b[k]

\* the order of instants
TimeLess(s, t) == s.hr < t.hr \/ (s.hr = t.hr /\ s.frac < t.frac)
TimeLeq(s, t) == s = t \/ TimeLess(s, t)

NULL == <<>>

(***************************************************************************)
(* auth_manager.py: hash_password                                          *)
(***************************************************************************)
\* hashlib.sha256(password.encode()).hexdigest(): deterministic, and
\* distinct passwords have distinct digests
hash_password(password) == <<"sha256", password>>

(***************************************************************************)
(* Tables                                                                  *)
(***************************************************************************)
EmptyDb == [users |-> <<>>, student_profiles |-> <<>>, remember_tokens |-> <<>>]

\* (mutant of UserRow) the password is stored as submitted, while login_user
\* looks for its digest
UserRow_Plaintext(email, password_hash) ==
    [email |-> email, password_hash |-> <<"plain", password_hash[2]>>,
     last_login |-> NULL, is_profile_complete |-> FALSE]

\* users row; its id is its position (INTEGER PRIMARY KEY AUTOINCREMENT,
\* no row is ever deleted)
UserRow(email, password_hash) ==
    [email |-> email, password_hash |-> password_hash,
     last_login |-> NULL, is_profile_complete |-> FALSE]

UserIdsOf(t) == 1..Len(t.users)

\* (mutant of EmailTaken) the users table without UNIQUE on email
EmailTaken_NoUnique(t, email) == FALSE

\* email TEXT UNIQUE NOT NULL
EmailTaken(t, email) == \E i \in UserIdsOf(t) : t.users[i].email = email

\* Python's None
None == [none |-> TRUE]

\* st.session_state of a fresh or cleared session, as check_authentication
\* initialises it; remember_token is <<>> when the key is absent.  handler
\* is the position of the page's script: "remember" between the two calls
\* of the login form
NoSession ==
    [authenticated |-> FALSE, user_data |-> None, remember_token |-> <<>>,
     handler |-> "none"]

\* FlashcardAgent and PlannerAgent
Agents == {"flashcard", "planner"}

\* an agent object before __init__ has run
NewAgent ==
    [pc |-> "new", faiss_db |-> None, topic |-> "", searched |-> None,
     course_content |-> None, course_structure |-> None, prompt |-> "",
     error |-> ""]

\* the registration form before its first submission
NoForm == [message |-> ""]

Pending == [pending |-> TRUE]
NoCall == [op |-> "none", result |-> Pending]

Init ==
    /\ db = EmptyDb
    /\ txn_owner = 0
    /\ txn_db = EmptyDb
    /\ pc = [c \in Callers |-> "idle"]
    /\ frame = [c \in Callers |-> NoCall]
    /\ now = [hr |-> 0, frac |-> 0]
    /\ tz \in {-1, 0, 1}
    /\ entropy = 0
    /\ issued = <<>>
    /\ saved = {}
    /\ session = [c \in Callers |-> NoSession]
    /\ form = [c \in Callers |-> NoForm]
    /\ agent = [a \in Agents |-> NewAgent]

(***************************************************************************)
(* Calls.  frame[c] holds caller c's current call (its arguments and       *)
(* locals) and, once pc[c] is back to "idle", the value it returned.       *)
(***************************************************************************)
Idle(c) == pc[c] = "idle"

Goto(c, label) == pc' = [pc EXCEPT ![c] = label]

Return(c, value) ==
    /\ pc' = [pc EXCEPT ![c] = "idle"]
    /\ frame' = [frame EXCEPT ![c].result = value]

\* conn.commit(): the connection's view becomes the file's content and the
\* write lock is released
Commit ==
    /\ db' = txn_db
    /\ txn_db' = txn_db
    /\ txn_owner' = 0

\* conn.close() with a transaction open: SQLite rolls it back
Rollback ==
    /\ db' = db
    /\ txn_db' = db
    /\ txn_owner' = 0

(***************************************************************************)
(* register_user                                                           *)
(***************************************************************************)
\* INSERT INTO users (email, password_hash) VALUES (?, ?)
InsertUser(t, email, password_hash) ==
    [t EXCEPT !.users = Append(@, UserRow(email, password_hash))]

\* the INSERT; sqlite3 has begun a transaction, which holds the write lock
\* whether the statement succeeds or raises IntegrityError
register_user_insert(c, email, password) ==
    /\ Idle(c)
    /\ txn_owner = 0
    /\ txn_owner' = c
    /\ frame' = [frame EXCEPT ![c] =
                   [op |-> "register_user", email |-> email,
                    password |-> password, result |-> Pending]]
    /\ IF EmailTaken(db, email)
       THEN /\ txn_db' = db
            /\ Goto(c, "register_IntegrityError")
       ELSE /\ txn_db' = InsertUser(db, email, hash_password(password))
            /\ Goto(c, "register_commit")
    /\ UNCHANGED <<db, now, tz, entropy, issued, saved>>

\* (mutant of register_user_commit) the id reported is the number of rows
\* before the INSERT
register_user_commit_StaleId(c) ==
    /\ pc[c] = "register_commit"
    /\ Commit
    /\ Return(c, [success |-> TRUE, user_id |-> Len(db.users),
                  message |-> "User registered successfully!"])
    /\ UNCHANGED <<now, tz, entropy, issued, saved>>

\* conn.commit(); user_id = cursor.lastrowid
register_user_commit(c) ==
    /\ pc[c] = "register_commit"
    /\ Commit
    /\ Return(c, [success |-> TRUE, user_id |-> Len(txn_db.users),
                  message |-> "User registered successfully!"])
    /\ UNCHANGED <<now, tz, entropy, issued, saved>>

\* except sqlite3.IntegrityError: conn.close()
register_user_except(c) ==
    /\ pc[c] = "register_IntegrityError"
    /\ Rollback
    /\ Return(c, [success |-> FALSE, message |-> "Email already exists!"])
    /\ UNCHANGED <<now, tz, entropy, issued, saved>>

\* (mutant of register_user_busy) every sqlite3 error is reported as a
\* duplicate email
register_user_busy_AsDuplicate(c, email, password) ==
    /\ Idle(c)
    /\ txn_owner \notin {0, c}
    /\ frame' = [frame EXCEPT ![c] =
                   [op |-> "register_user", email |-> email,
                    password |-> password,
                    result |-> [success |-> FALSE,
                                message |-> "Email already exists!"]]]
    /\ UNCHANGED <<db, txn_owner, txn_db, pc, now, tz, entropy, issued, saved>>

\* the INSERT while another connection holds the write lock for longer than
\* the busy timeout: sqlite3.OperationalError, caught by except Exception
register_user_busy(c, email, password) ==
    /\ Idle(c)
    /\ txn_owner \notin {0, c}
    /\ frame' = [frame EXCEPT ![c] =
                   [op |-> "register_user", email |-> email,
                    password |-> password,
                    result |-> [success |-> FALSE,
                                message |->
                                  "Registration failed: database is locked"]]]
    /\ UNCHANGED <<db, txn_owner, txn_db, pc, now, tz, entropy, issued, saved>>

(***************************************************************************)
(* login_user                                                              *)
(***************************************************************************)
\* SELECT id, email, is_profile_complete FROM users
\*  WHERE email = ? AND password_hash = ?
LoginSelect(t, email, password_hash) ==
    {i \in UserIdsOf(t) : /\ t.users[i].email = email
                          /\ t.users[i].password_hash = password_hash}

\* cursor.fetchone(): the first row in rowid order
FetchOne(ids) == CHOOSE i \in ids : \A j \in ids : i <= j

\* (mutant of UpdateLastLogin) last_login written from Python's
\* datetime.now() instead of SQLite's CURRENT_TIMESTAMP
UpdateLastLogin_Local(t, id) ==
    [t EXCEPT !.users[id].last_login = adapt_datetime(datetime_now)]

\* UPDATE users SET last_login = CURRENT_TIMESTAMP WHERE id = ?
UpdateLastLogin(t, id) ==
    [t EXCEPT !.users[id].last_login = CURRENT_TIMESTAMP]

LoginFailure == [success |-> FALSE, message |-> "Invalid email or password!"]

LoginSuccess(t, id) ==
    [success |-> TRUE, user_id |-> id, email |-> t.users[id].email,
     is_profile_complete |-> t.users[id].is_profile_complete,
     message |-> "Login successful!"]

\* (mutant of login_user) an unknown email gets a message of its own
login_user_Enumerating(c, email, password) ==
    /\ Idle(c)
    /\ LET found == LoginSelect(db, email, hash_password(password))
           call == [op |-> "login_user", email |-> email,
                    password |-> password, result |-> Pending]
       IN  IF found # {}
           THEN /\ txn_owner = 0
                /\ db' = UpdateLastLogin(db, FetchOne(found))
                /\ txn_db' = db'
                /\ frame' = [frame EXCEPT ![c] =
                     [call EXCEPT !.result = LoginSuccess(db, FetchOne(found))]]
           ELSE /\ frame' = [frame EXCEPT ![c] =
                     [call EXCEPT !.result =
                        IF EmailTaken(db, email)
                        THEN LoginFailure
                        ELSE [success |-> FALSE,
                              message |-> "No account with this email!"]]]
                /\ UNCHANGED <<db, txn_db>>
    /\ UNCHANGED <<txn_owner, pc, now, tz, entropy, issued, saved>>

\* the whole method: the SELECT, and on a match the UPDATE and the commit
\* (one write statement, so nothing of it is seen half done)
login_user(c, email, password) ==
    /\ Idle(c)
    /\ LET found == LoginSelect(db, email, hash_password(password))
           call == [op |-> "login_user", email |-> email,
                    password |-> password, result |-> Pending]
       IN  IF found # {}
           THEN /\ txn_owner = 0
                /\ db' = UpdateLastLogin(db, FetchOne(found))
                /\ txn_db' = db'
                /\ frame' = [frame EXCEPT ![c] =
                     [call EXCEPT !.result = LoginSuccess(db, FetchOne(found))]]
           ELSE /\ frame' = [frame EXCEPT ![c] =
                     [call EXCEPT !.result = LoginFailure]]
                /\ UNCHANGED <<db, txn_db>>
    /\ UNCHANGED <<txn_owner, pc, now, tz, entropy, issued, saved>>

(***************************************************************************)
(* create_remember_token                                                   *)
(***************************************************************************)
\* (mutant of DeleteTokens) the WHERE clause left out: every row is deleted
DeleteTokens_All(t, user_id) == [t EXCEPT !.remember_tokens = <<>>]

\* (mutant of DeleteTokens) only the expired rows of the account are deleted
DeleteTokens_ExpiredOnly(t, user_id) ==
    [t EXCEPT !.remember_tokens =
        SelectSeq(@, LAMBDA r : ~(/\ r.user_id = user_id
                                  /\ ~TextGreater(r.expires_at, CURRENT_TIMESTAMP)))]

\* (mutant of DeleteTokens) the DELETE left out
DeleteTokens_None(t, user_id) == t

\* DELETE FROM remember_tokens WHERE user_id = ?
DeleteTokens(t, user_id) ==
    [t EXCEPT !.remember_tokens =
        SelectSeq(@, LAMBDA r : r.user_id # user_id)]

\* INSERT INTO remember_tokens (user_id, token, expires_at) VALUES (?, ?, ?)
InsertToken(t, user_id, token, expires_at) ==
    [t EXCEPT !.remember_tokens =
        Append(@, [user_id |-> user_id, token |-> token,
                   expires_at |-> adapt_datetime(expires_at)])]

\* expires_at = datetime.now() + timedelta(days=30)
TokenExpiry == PlusTokenDays(datetime_now)

\* token = secrets.token_urlsafe(32), a value never handed out before, and
\* expires_at, both computed before the database is touched
create_remember_token_begin(c, user_id) ==
    /\ Idle(c)
    /\ entropy < MaxTokens
    /\ entropy' = entropy + 1
    /\ frame' = [frame EXCEPT ![c] =
                   [op |-> "create_remember_token", user_id |-> user_id,
                    token |-> entropy + 1, expires_at |-> TokenExpiry,
                    called_at |-> now, result |-> Pending]]
    /\ Goto(c, "token_delete")
    /\ UNCHANGED <<db, txn_owner, txn_db, now, tz, issued, saved>>

\* (mutant of create_remember_token_delete) the connection in autocommit
\* mode: the DELETE is committed on its own and the write lock released
create_remember_token_delete_Autocommit(c) ==
    /\ pc[c] = "token_delete"
    /\ txn_owner = 0
    /\ db' = DeleteTokens(db, frame[c].user_id)
    /\ txn_db' = db'
    /\ Goto(c, "token_insert")
    /\ UNCHANGED <<txn_owner, frame, now, tz, entropy, issued, saved>>

\* the DELETE, which opens the transaction and takes the write lock
create_remember_token_delete(c) ==
    /\ pc[c] = "token_delete"
    /\ txn_owner = 0
    /\ txn_owner' = c
    /\ txn_db' = DeleteTokens(db, frame[c].user_id)
    /\ Goto(c, "token_insert")
    /\ UNCHANGED <<db, frame, now, tz, entropy, issued, saved>>

\* the INSERT, in the transaction the DELETE opened
create_remember_token_insert(c) ==
    /\ pc[c] = "token_insert"
    /\ txn_owner \in {0, c}
    /\ txn_owner' = c
    /\ txn_db' = InsertToken(txn_db, frame[c].user_id, frame[c].token,
                             frame[c].expires_at)
    /\ Goto(c, "token_commit")
    /\ UNCHANGED <<db, frame, now, tz, entropy, issued, saved>>

\* conn.commit(); return token
create_remember_token_commit(c) ==
    /\ pc[c] = "token_commit"
    /\ Commit
    /\ Return(c, [token |-> frame[c].token])
    /\ issued' = Append(issued, [token |-> frame[c].token,
                                 user_id |-> frame[c].user_id,
                                 at |-> frame[c].called_at,
                                 logged_out |-> FALSE])
    /\ UNCHANGED <<now, tz, entropy, saved>>

(***************************************************************************)
(* validate_remember_token                                                 *)
(***************************************************************************)
\* SELECT u.id, u.email, u.is_profile_complete FROM users u
\*   JOIN remember_tokens rt ON u.id = rt.user_id
\*  WHERE rt.token = ? AND rt.expires_at > CURRENT_TIMESTAMP
ValidateSelect(t, token) ==
    {i \in UserIdsOf(t) :
        \E k \in 1..Len(t.remember_tokens) :
            /\ t.remember_tokens[k].user_id = i
            /\ t.remember_tokens[k].token = token
            /\ TextGreater(t.remember_tokens[k].expires_at, CURRENT_TIMESTAMP)}

ValidateFailure == [success |-> FALSE]

ValidateSuccess(t, id) ==
    [success |-> TRUE, user_id |-> id, email |-> t.users[id].email,
     is_profile_complete |-> t.users[id].is_profile_complete]

validate_remember_token_result(token) ==
    LET found == ValidateSelect(db, token)
    IN  IF found # {} THEN ValidateSuccess(db, FetchOne(found))
                      ELSE ValidateFailure

\* (mutant of validate_remember_token) a valid token counts as a login:
\* last_login is refreshed
validate_remember_token_Refreshing(c, token) ==
    /\ Idle(c)
    /\ frame' = [frame EXCEPT ![c] =
                   [op |-> "validate_remember_token", token |-> token,
                    result |-> validate_remember_token_result(token)]]
    /\ IF ValidateSelect(db, token) # {}
       THEN /\ txn_owner = 0
            /\ db' = UpdateLastLogin(db, FetchOne(ValidateSelect(db, token)))
            /\ txn_db' = db'
       ELSE UNCHANGED <<db, txn_db>>
    /\ UNCHANGED <<txn_owner, pc, now, tz, entropy, issued, saved>>

validate_remember_token(c, token) ==
    /\ Idle(c)
    /\ frame' = [frame EXCEPT ![c] =
                   [op |-> "validate_remember_token", token |-> token,
                    result |-> validate_remember_token_result(token)]]
    /\ UNCHANGED <<db, txn_owner, txn_db, pc, now, tz, entropy, issued, saved>>

(***************************************************************************)
(* logout_user                                                             *)
(***************************************************************************)
\* (mutant of logout_user) only 'authenticated' and 'user_data' are
\* deleted from the session state, the remember token stays
logout_user_KeepToken(c, user_id) ==
    /\ Idle(c)
    /\ txn_owner = 0
    /\ db' = DeleteTokens(db, user_id)
    /\ txn_db' = db'
    /\ frame' = [frame EXCEPT ![c] =
                   [op |-> "logout_user", user_id |-> user_id,
                    result |-> [success |-> TRUE,
                                message |-> "Logged out successfully!"]]]
    /\ issued' = [k \in 1..Len(issued) |->
                    IF issued[k].user_id = user_id
                    THEN [issued[k] EXCEPT !.logged_out = TRUE]
                    ELSE issued[k]]
    /\ UNCHANGED <<form, agent>>
    /\ session' = [session EXCEPT
                      ![c] = [NoSession EXCEPT
                                 !.remember_token = session[c].remember_token]]
    /\ UNCHANGED <<txn_owner, pc, now, tz, entropy, saved>>

\* the DELETE and the commit (one write statement), then every key of
\* st.session_state is deleted
logout_user(c, user_id) ==
    /\ Idle(c)
    /\ txn_owner = 0
    /\ db' = DeleteTokens(db, user_id)
    /\ txn_db' = db'
    /\ frame' = [frame EXCEPT ![c] =
                   [op |-> "logout_user", user_id |-> user_id,
                    result |-> [success |-> TRUE,
                                message |-> "Logged out successfully!"]]]
    /\ issued' = [k \in 1..Len(issued) |->
                    IF issued[k].user_id = user_id
                    THEN [issued[k] EXCEPT !.logged_out = TRUE]
                    ELSE issued[k]]
    /\ UNCHANGED <<form, agent>>
    /\ session' = [session EXCEPT ![c] = NoSession]
    /\ UNCHANGED <<txn_owner, pc, now, tz, entropy, saved>>

(***************************************************************************)
(* save_student_profile                                                    *)
(***************************************************************************)
\* SELECT id FROM student_profiles WHERE user_id = ?
ProfileRowsOf(t, user_id) ==
    {k \in 1..Len(t.student_profiles) : t.student_profiles[k].user_id = user_id}

\* (mutant of YearCheck) the upper bound left out of the CHECK
YearCheck_LowerOnly(year) == year >= MinYear

\* year INTEGER NOT NULL CHECK(year >= 1 AND year <= 4)
YearCheck(year) == year >= MinYear /\ year <= MaxYear

ProfileRow(user_id, profile_data) ==
    [user_id |-> user_id, name |-> profile_data.name,
     year |-> profile_data.year, course |-> profile_data.course,
     interests |-> profile_data.interests, goals |-> profile_data.goals,
     hobbies |-> profile_data.hobbies,
     learning_style |-> profile_data.learning_style,
     current_skills |-> profile_data.current_skills]

\* (mutant of UpdateProfile) a partial update: only name and year are set
UpdateProfile_Partial(t, user_id, profile_data) ==
    [t EXCEPT !.student_profiles =
        [k \in 1..Len(@) |-> IF @[k].user_id = user_id
                             THEN [@[k] EXCEPT !.name = profile_data.name,
                                               !.year = profile_data.year]
                             ELSE @[k]]]

\* UPDATE student_profiles SET name = ?, ... WHERE user_id = ?
UpdateProfile(t, user_id, profile_data) ==
    [t EXCEPT !.student_profiles =
        [k \in 1..Len(@) |-> IF @[k].user_id = user_id
                             THEN ProfileRow(user_id, profile_data)
                             ELSE @[k]]]

\* INSERT INTO student_profiles (user_id, name, ...) VALUES (?, ...)
InsertProfile(t, user_id, profile_data) ==
    [t EXCEPT !.student_profiles = Append(@, ProfileRow(user_id, profile_data))]

\* (mutant of MarkProfileComplete) the UPDATE of users left out
MarkProfileComplete_Skipped(t, user_id) == t

\* UPDATE users SET is_profile_complete = TRUE WHERE id = ?
MarkProfileComplete(t, user_id) ==
    IF user_id \in UserIdsOf(t)
    THEN [t EXCEPT !.users[user_id].is_profile_complete = TRUE]
    ELSE t

\* (mutant of save_student_profile_select) the existence check left out:
\* every save takes the INSERT branch
save_student_profile_select_AlwaysInsert(c, user_id, profile_data) ==
    /\ Idle(c)
    /\ frame' = [frame EXCEPT ![c] =
                   [op |-> "save_student_profile", user_id |-> user_id,
                    profile_data |-> profile_data,
                    existing_profile |-> FALSE,
                    result |-> Pending]]
    /\ Goto(c, "save_write")
    /\ UNCHANGED <<db, txn_owner, txn_db, now, tz, entropy, issued, saved>>

\* the SELECT: no transaction is open yet, it reads the committed file
save_student_profile_select(c, user_id, profile_data) ==
    /\ Idle(c)
    /\ frame' = [frame EXCEPT ![c] =
                   [op |-> "save_student_profile", user_id |-> user_id,
                    profile_data |-> profile_data,
                    existing_profile |-> ProfileRowsOf(db, user_id) # {},
                    result |-> Pending]]
    /\ Goto(c, "save_write")
    /\ UNCHANGED <<db, txn_owner, txn_db, now, tz, entropy, issued, saved>>

\* the UPDATE or the INSERT: it takes the write lock, and raises
\* IntegrityError when a row it writes fails the CHECK on year (an UPDATE
\* that matches no row writes none)
save_student_profile_write(c) ==
    /\ pc[c] = "save_write"
    /\ txn_owner = 0
    /\ txn_owner' = c
    /\ LET user_id == frame[c].user_id
           data == frame[c].profile_data
           writes == IF frame[c].existing_profile
                     THEN ProfileRowsOf(db, user_id) # {}
                     ELSE TRUE
       IN  IF writes /\ ~YearCheck(data.year)
           THEN /\ txn_db' = db
                /\ Goto(c, "save_except")
           ELSE /\ txn_db' = IF frame[c].existing_profile
                             THEN UpdateProfile(db, user_id, data)
                             ELSE InsertProfile(db, user_id, data)
                /\ Goto(c, "save_mark")
    /\ UNCHANGED <<db, frame, now, tz, entropy, issued, saved>>

save_student_profile_mark(c) ==
    /\ pc[c] = "save_mark"
    /\ txn_db' = MarkProfileComplete(txn_db, frame[c].user_id)
    /\ Goto(c, "save_commit")
    /\ UNCHANGED <<db, txn_owner, frame, now, tz, entropy, issued, saved>>

save_student_profile_commit(c) ==
    /\ pc[c] = "save_commit"
    /\ Commit
    /\ Return(c, [success |-> TRUE, message |-> "Profile saved successfully!"])
    /\ saved' = saved \cup {frame[c].user_id}
    /\ UNCHANGED <<now, tz, entropy, issued>>

\* except Exception as e: conn.close()
save_student_profile_except(c) ==
    /\ pc[c] = "save_except"
    /\ Rollback
    /\ Return(c, [success |-> FALSE,
                  message |-> "Failed to save profile: CHECK constraint failed"])
    /\ UNCHANGED <<now, tz, entropy, issued, saved>>

(***************************************************************************)
(* get_student_profile                                                     *)
(***************************************************************************)
\* (mutant of get_student_profile_result) the row is looked up by its own
\* id: ... FROM student_profiles WHERE id = ?
get_student_profile_result_ById(user_id) ==
    LET found == {i \in DOMAIN db.student_profiles : i = user_id}
    IN  IF found # {}
        THEN LET r == db.student_profiles[FetchOne(found)]
             IN  [success |-> TRUE,
                  profile |-> [name |-> r.name, year |-> r.year,
                               course |-> r.course, interests |-> r.interests,
                               goals |-> r.goals, hobbies |-> r.hobbies,
                               learning_style |-> r.learning_style,
                               current_skills |-> r.current_skills]]
        ELSE [success |-> FALSE, message |-> "Profile not found"]

get_student_profile_result(user_id) ==
    LET found == ProfileRowsOf(db, user_id)
    IN  IF found # {}
        THEN LET r == db.student_profiles[FetchOne(found)]
             IN  [success |-> TRUE,
                  profile |-> [name |-> r.name, year |-> r.year,
                               course |-> r.course, interests |-> r.interests,
                               goals |-> r.goals, hobbies |-> r.hobbies,
                               learning_style |-> r.learning_style,
                               current_skills |-> r.current_skills]]
        ELSE [success |-> FALSE, message |-> "Profile not found"]

get_student_profile(c, user_id) ==
    /\ Idle(c)
    /\ frame' = [frame EXCEPT ![c] =
                   [op |-> "get_student_profile", user_id |-> user_id,
                    result |-> get_student_profile_result(user_id)]]
    /\ UNCHANGED <<db, txn_owner, txn_db, pc, now, tz, entropy, issued, saved>>

(***************************************************************************)
(* agents/flashcard_agent.py, agents/planner_agent.py: the optional vector *)
(* database and the generation of flashcards and study plans from a topic. *)
(***************************************************************************)
Topics == {"AI", "SQL"}

\* what faiss_db.search_documents(topic, top_k) may do: return text, return
\* nothing that counts as content, or throw
SearchOutcomes ==
    {[raises |-> FALSE, value |-> [text |-> "course notes"]],
     [raises |-> FALSE, value |-> [text |-> ""]],
     [raises |-> FALSE, value |-> None],
     [raises |-> TRUE, value |-> None]}

\* what faiss_manager.search_by_topic(topic, top_k) may do
StructureOutcomes ==
    {[raises |-> FALSE, matches |-> 2],
     [raises |-> FALSE, matches |-> 0],
     [raises |-> TRUE, matches |-> 0]}

\* Python truth value of an Optional[str]
Truthy(x) == x # None /\ x.text # ""

\* __init__: self.faiss_db = DocumentProcessor() when the import succeeded
\* and the constructor does not throw, else None
agent_init(a, imported, constructed) ==
    /\ agent[a].pc = "new"
    /\ agent' = [agent EXCEPT
          ![a].pc = "ready",
          ![a].faiss_db = IF imported /\ constructed
                          THEN [none |-> FALSE] ELSE None]

\* generate_topic_flashcards(topic, ...) / create_topic_study_plan(topic, ...)
\* is entered
generate_begin(a, topic) ==
    /\ agent[a].pc = "ready"
    /\ agent' = [agent EXCEPT ![a] =
          [NewAgent EXCEPT !.pc = "search", !.faiss_db = agent[a].faiss_db,
                           !.topic = topic]]

\* (mutant of search_course_content_result) the search is not wrapped in
\* try/except
search_course_content_result_Unguarded(faiss_db, outcome) ==
    IF faiss_db = None
    THEN [raised |-> FALSE, value |-> None]
    ELSE [raised |-> outcome.raises, value |-> outcome.value]

\* search_course_content: None without a database, None when the search
\* throws, else what the search returned
search_course_content_result(faiss_db, outcome) ==
    IF faiss_db = None
    THEN [raised |-> FALSE, value |-> None]
    ELSE IF outcome.raises
    THEN [raised |-> FALSE, value |-> None]
    ELSE [raised |-> FALSE, value |-> outcome.value]

\* course_content = self.search_course_content(topic); an exception that
\* leaves the method is caught by the caller's except clause
search_course_content(a, outcome) ==
    /\ agent[a].pc = "search"
    /\ LET r == search_course_content_result(agent[a].faiss_db, outcome)
       IN  agent' = [agent EXCEPT
              ![a].searched = IF agent[a].faiss_db = None
                              THEN None ELSE outcome,
              ![a].course_content = r.value,
              ![a].pc = IF r.raised THEN "failed"
                        ELSE IF a = "planner" THEN "structure" ELSE "searched",
              ![a].error = IF r.raised THEN "generation failed" ELSE ""]

\* PlannerAgent.get_course_structure: None without a database, without
\* matches or when the search throws
get_course_structure(a, outcome) ==
    /\ agent[a].pc = "structure"
    /\ agent' = [agent EXCEPT
          ![a].course_structure =
              IF agent[a].faiss_db = None \/ outcome.raises
                 \/ outcome.matches = 0
              THEN None ELSE [total_matches |-> outcome.matches],
          ![a].pc = "searched"]

\* if course_content: prompt with the course content, else: the prompt
\* from general knowledge
generate_prompt(a) ==
    /\ agent[a].pc = "searched"
    /\ agent' = [agent EXCEPT
          ![a].prompt = IF Truthy(agent[a].course_content)
                        THEN "course content" ELSE "general knowledge",
          ![a].pc = "prompted"]

\* the Gemini call and the formatting: a result, or an exception that the
\* method re-raises
generate_finish(a, ok) ==
    /\ agent[a].pc = "prompted"
    /\ agent' = [agent EXCEPT
          ![a].pc = IF ok THEN "done" ELSE "failed",
          ![a].error = IF ok THEN "" ELSE "generation failed"]

\* the method has returned or raised; the agent object takes the next call
generate_return(a) ==
    /\ agent[a].pc \in {"done", "failed"}
    /\ agent' = [agent EXCEPT ![a].pc = "ready"]

(***************************************************************************)
(* Pages: launcher.py routes a session to app.py (login and registration   *)
(* forms), to student_profile.py (profile form) or to the main page        *)
(* (Logout and Edit Profile buttons).                                      *)
(***************************************************************************)
\* (mutant of user_data_of) the stored flag is not copied: the session
\* counts the profile as complete
user_data_of_Complete(result) ==
    [user_id |-> result.user_id, email |-> result.email,
     is_profile_complete |-> TRUE]

\* (mutant of user_data_of) the assignment of user_data left out
user_data_of_Missing(result) == None

\* st.session_state.user_data = {'user_id': ..., 'email': ...,
\*                               'is_profile_complete': ...}
user_data_of(result) ==
    [user_id |-> result.user_id, email |-> result.email,
     is_profile_complete |-> result.is_profile_complete]

\* check_authentication: a session that is not authenticated and holds a
\* remember token is authenticated when the token validates
check_authentication(s) ==
    IF /\ ~s.authenticated
       /\ s.remember_token # <<>>
       /\ validate_remember_token_result(s.remember_token[1]).success
    THEN [s EXCEPT !.authenticated = TRUE,
                   !.user_data = user_data_of(
                       validate_remember_token_result(s.remember_token[1]))]
    ELSE s

\* (mutant of page) the profile gate is missing: every authenticated
\* session is routed to the main page
page_NoProfileGate(s) ==
    LET a == check_authentication(s)
    IN  IF ~a.authenticated THEN "auth"
        ELSE "main"

\* launcher.main: the page the session is routed to
\*   if not is_authenticated: load_page("auth")
\*   elif user_data and not user_data.get('is_profile_complete', False):
\*       load_page("profile")
\*   else: load_page("main")
page(s) ==
    LET a == check_authentication(s)
    IN  IF ~a.authenticated THEN "auth"
        ELSE IF a.user_data # None /\ ~a.user_data.is_profile_complete
        THEN "profile"
        ELSE "main"

\* the script is at the top of a page, no call in progress
AtPage(c, name) ==
    /\ Idle(c)
    /\ session[c].handler = "none"
    /\ page(session[c]) = name

\* app.py, login form: the checks, login_user, and on success the session
\* is authenticated; with "Remember me" the script goes on to
\* create_remember_token
login_form_submit(c, email, password, remember_me) ==
    /\ AtPage(c, "auth")
    /\ email # <<>> /\ password # <<>>
    /\ validate_email(email)
    /\ remember_me => entropy < MaxTokens
    /\ login_user(c, email, password)
    /\ UNCHANGED <<form, agent>>
    /\ session' =
          IF frame'[c].result.success
          THEN [session EXCEPT ![c] =
                   [check_authentication(@) EXCEPT
                       !.authenticated = TRUE,
                       !.user_data = user_data_of(frame'[c].result),
                       !.handler = IF remember_me THEN "remember"
                                                  ELSE "none"]]
          ELSE [session EXCEPT ![c] = check_authentication(@)]

\* (mutant of login_form_remember) the token is requested for the first
\* account, not for the one that logged in
login_form_remember_FirstAccount(c) ==
    /\ session[c].handler = "remember"
    /\ create_remember_token_begin(c, 1)
    /\ UNCHANGED <<session, form, agent>>

\* token = auth_manager.create_remember_token(result['user_id'])
login_form_remember(c) ==
    /\ session[c].handler = "remember"
    /\ create_remember_token_begin(c, session[c].user_data.user_id)
    /\ UNCHANGED <<session, form, agent>>

login_form_remember_step(c) ==
    /\ session[c].handler = "remember"
    /\ \/ create_remember_token_delete(c)
       \/ create_remember_token_insert(c)
    /\ UNCHANGED <<session, form, agent>>

\* st.session_state.remember_token = token
login_form_remembered(c) ==
    /\ session[c].handler = "remember"
    /\ create_remember_token_commit(c)
    /\ UNCHANGED <<form, agent>>
    /\ session' = [session EXCEPT ![c].remember_token = <<frame[c].token>>,
                                  ![c].handler = "none"]

\* (mutant of register_form_message) the confirmation is not compared with
\* the password
register_form_message_NoConfirm(new_email, new_password, confirm_password, terms_accepted) ==
    IF new_email = <<>> \/ new_password = <<>> \/ confirm_password = <<>>
    THEN "Please fill in all fields!"
    ELSE IF ~validate_email(new_email)
    THEN "Please enter a valid email address!"
    ELSE IF ~terms_accepted
    THEN "Please accept the Terms of Service and Privacy Policy!"
    ELSE IF ~validate_password(new_password)
    THEN "Password must be at least 6 characters long"
    ELSE ""

\* app.py, registration form: the error the checks display, in the order
\* of the code; "" when every check passes
register_form_message(new_email, new_password, confirm_password, terms_accepted) ==
    IF new_email = <<>> \/ new_password = <<>> \/ confirm_password = <<>>
    THEN "Please fill in all fields!"
    ELSE IF ~validate_email(new_email)
    THEN "Please enter a valid email address!"
    ELSE IF new_password # confirm_password
    THEN "Passwords do not match!"
    ELSE IF ~terms_accepted
    THEN "Please accept the Terms of Service and Privacy Policy!"
    ELSE IF ~validate_password(new_password)
    THEN "Password must be at least 6 characters long"
    ELSE ""

\* app.py, registration form: the checks and register_user; the session
\* stays as it is whatever the result ("Please login to continue")
register_form_submit(c, new_email, new_password, confirm_password, terms_accepted) ==
    /\ AtPage(c, "auth")
    /\ LET message == register_form_message(new_email, new_password,
                                            confirm_password, terms_accepted)
       IN  /\ form' = [form EXCEPT ![c] =
                        [new_email |-> new_email, new_password |-> new_password,
                         confirm_password |-> confirm_password,
                         terms_accepted |-> terms_accepted,
                         message |-> message]]
           /\ IF message = ""
              THEN register_user_insert(c, new_email, new_password)
              ELSE UNCHANGED <<db, txn_owner, txn_db, pc, frame, now, tz,
                               entropy, issued, saved>>
    /\ UNCHANGED agent
    /\ session' = [session EXCEPT ![c] = check_authentication(@)]

register_form_result(c) ==
    /\ \/ register_user_commit(c)
       \/ register_user_except(c)
    /\ UNCHANGED <<session, form, agent>>

\* student_profile.py, profile form: year comes from a selectbox over
\* 1..4, the required texts are checked, then save_student_profile
profile_form_submit(c, profile_data) ==
    /\ AtPage(c, "profile")
    /\ profile_data.year \in MinYear..MaxYear
    /\ missing_fields(profile_data) = {}
    /\ save_student_profile_select(c, session[c].user_data.user_id,
                                   profile_data)
    /\ UNCHANGED <<form, agent>>
    /\ session' = [session EXCEPT ![c] = check_authentication(@)]

profile_form_step(c) ==
    /\ \/ save_student_profile_write(c)
       \/ save_student_profile_mark(c)
    /\ UNCHANGED <<session, form, agent>>

\* if result['success']: user_data['is_profile_complete'] = True
profile_form_saved(c) ==
    /\ save_student_profile_commit(c)
    /\ UNCHANGED <<form, agent>>
    /\ session' = [session EXCEPT ![c].user_data.is_profile_complete = TRUE]

\* launcher.py, Logout button: logout_user, which clears the session
logout_button(c) ==
    /\ AtPage(c, "main")
    /\ logout_user(c, check_authentication(session[c]).user_data.user_id)

\* launcher.py, Edit Profile button: "temporarily mark profile as
\* incomplete to show profile page"
edit_profile_button(c) ==
    /\ AtPage(c, "main")
    /\ UNCHANGED <<form, agent>>
    /\ session' = [session EXCEPT
                      ![c] = [check_authentication(@) EXCEPT
                                 !.user_data.is_profile_complete = FALSE]]
    /\ UNCHANGED <<db, txn_owner, txn_db, pc, frame, now, tz, entropy,
                   issued, saved>>

\* a browser session starts with a remember token the client kept:
\* 'remember_token' in st.session_state, authenticated not yet set
returning_session(c, token) ==
    /\ Idle(c)
    /\ session[c] = NoSession
    /\ session' = [session EXCEPT ![c].remember_token = <<token>>]
    /\ UNCHANGED <<db, txn_owner, txn_db, pc, frame, now, tz, entropy,
                   issued, saved, form, agent>>

\* launcher.main runs check_authentication and routes the session
launcher_run(c) ==
    /\ Idle(c)
    /\ session[c].handler = "none"
    /\ session' = [session EXCEPT ![c] = check_authentication(@)]
    /\ UNCHANGED <<db, txn_owner, txn_db, pc, frame, now, tz, entropy,
                   issued, saved, form, agent>>

(***************************************************************************)
(* The clock                                                               *)
(***************************************************************************)
EarlyHours == 0..MaxEarlyHr
LateHours == (TokenDays * HoursPerDay - 1)..(TokenDays * HoursPerDay + MaxLateHr)

Instants(hours) == {[hr |-> h, frac |-> f] : h \in hours, f \in Fracs}

\* an instant past the 30-day mark of every token issued in the early hours
PastExpiry ==
    {[hr |-> TokenDays * HoursPerDay + MaxEarlyHr + MaxLateHr, frac |-> 0]}

\* time passes: the clock moves on to a later sampled instant
Tick(instants) ==
    /\ \E t \in instants : TimeLess(now, t) /\ now' = t
    /\ UNCHANGED <<db, txn_owner, txn_db, pc, frame, tz, entropy, issued, saved,
                   session, form, agent>>

(***************************************************************************)
(* Specifications.  Each takes the steps of the methods its claims are     *)
(* about, for the callers and from the inputs named.                       *)
(***************************************************************************)
\* register_user
Register(c, emails, passwords) ==
    /\ \/ \E e \in emails, p \in passwords : register_user_insert(c, e, p)
       \/ register_user_commit(c)
       \/ register_user_except(c)
    /\ UNCHANGED <<session, form, agent>>

\* register_user and login_user
Accounts(c, emails, passwords) ==
    \/ Register(c, emails, passwords)
    \/ /\ \E e \in emails, p \in passwords : login_user(c, e, p)
       /\ UNCHANGED <<session, form, agent>>

\* create_remember_token, validate_remember_token and logout_user
Tokens(c, ids) ==
    \/ /\ \/ \E u \in ids : create_remember_token_begin(c, u)
          \/ create_remember_token_delete(c)
          \/ create_remember_token_insert(c)
          \/ create_remember_token_commit(c)
          \/ \E t \in TokenArgs : validate_remember_token(c, t)
       /\ UNCHANGED <<session, form, agent>>
    \/ \E u \in ids : logout_user(c, u)

\* save_student_profile
Save(c, ids, inputs) ==
    /\ \/ \E u \in ids, d \in inputs : save_student_profile_select(c, u, d)
       \/ save_student_profile_write(c)
       \/ save_student_profile_mark(c)
       \/ save_student_profile_commit(c)
       \/ save_student_profile_except(c)
    /\ UNCHANGED <<session, form, agent>>

\* one caller, every method that writes plus the token check, within the
\* first hours of the clock
Next ==
    \/ Accounts(1, Emails, {PwSecret})
    \/ Tokens(1, UserIds)
    \/ Save(1, UserIds, {Profile(Ann, 2), Profile(Ann, 5)})

Spec == Init /\ [][Next]_vars

\* one caller registering and logging in, while time passes
NextAccounts ==
    \/ Accounts(1, Emails, Passwords)
    \/ Tick(Instants(EarlyHours))

SpecAccounts == Init /\ [][NextAccounts]_vars

\* two callers registering and logging in, their steps interleaved
NextRegisterRace == \E c \in Callers : Accounts(c, Emails, Passwords)

SpecRegisterRace == Init /\ [][NextRegisterRace]_vars

\* two callers issuing and checking tokens, their steps interleaved
NextTokenRace ==
    \/ Register(1, {EmailA}, {PwSecret})
    \/ \E c \in Callers : Tokens(c, {1})

SpecTokenRace == Init /\ [][NextTokenRace]_vars

\* one account and its tokens from issuance to past the 30-day mark
NextClock ==
    \/ Register(1, {EmailA}, {PwSecret})
    \/ Tokens(1, {1})
    \/ Tick(Instants(EarlyHours \cup LateHours))

SpecClock == Init /\ [][NextClock]_vars

\* one account with its logins, profile and tokens, and a clock that
\* jumps past the 30-day mark
NextValidate ==
    \/ Accounts(1, {EmailA}, {PwSecret})
    \/ Tokens(1, {1})
    \/ Save(1, {1}, {Profile(Ann, 2), Profile(Ann, 5)})
    \/ Tick(PastExpiry)

SpecValidate == Init /\ [][NextValidate]_vars

\* one caller saving and reading profiles
NextProfiles ==
    \/ Accounts(1, Emails, {PwSecret})
    \/ Save(1, UserIds, ProfileInputs)
    \/ /\ \E u \in UserIds : get_student_profile(1, u)
       /\ UNCHANGED <<session, form, agent>>

SpecProfiles == Init /\ [][NextProfiles]_vars

\* one account, saves with a required field blank among the others
NextBlankFields ==
    \/ Register(1, {EmailA}, {PwSecret})
    \/ Save(1, {1}, BlankInputs \cup {Profile(Ann, 2), Profile(Ann, 5)})

SpecBlankFields == Init /\ [][NextBlankFields]_vars

\* two callers saving the profile of one account, their steps interleaved
NextSaveRace ==
    \/ Register(1, {EmailA}, {PwSecret})
    \/ \E c \in Callers :
           Save(c, {1}, {Profile(Ann, 2), ProfileBo, Profile(Ann, 5)})

SpecSaveRace == Init /\ [][NextSaveRace]_vars

\* one browser session using the pages
Pages(c, emails, passwords, profiles) ==
    \/ \E e \in emails, p \in passwords, r \in BOOLEAN :
           login_form_submit(c, e, p, r)
    \/ login_form_remember(c)
    \/ login_form_remember_step(c)
    \/ login_form_remembered(c)
    \/ \E e \in emails, p \in passwords, q \in passwords, t \in BOOLEAN :
           register_form_submit(c, e, p, q, t)
    \/ register_form_result(c)
    \/ \E d \in profiles : profile_form_submit(c, d)
    \/ profile_form_step(c)
    \/ profile_form_saved(c)
    \/ logout_button(c)
    \/ edit_profile_button(c)

NextSession ==
    Pages(1, Emails, Passwords, {Profile(Ann, 2), ProfileBo} \cup BlankInputs)

SpecSession == Init /\ [][NextSession]_vars

\* two callers registering, a writer that finds the database locked either
\* waits for the lock or gives up
NextRegisterFailures ==
    \E c \in Callers :
        \/ Register(c, Emails, {PwSecret})
        \/ /\ \E e \in Emails : register_user_busy(c, e, PwSecret)
           /\ UNCHANGED <<session, form, agent>>

SpecRegisterFailures == Init /\ [][NextRegisterFailures]_vars

\* an address the pattern of validate_email rejects
EmailBad == <<"a", "@", "x">>
\* what may be typed into the registration form: the fields may be left
\* empty, the address may be malformed, the password short
SignUpEmails == Emails \cup {<<>>, EmailBad}
SignUpPasswords == Passwords \cup {<<>>}

\* one browser session at the registration form
NextSignUp ==
    \/ \E e \in SignUpEmails, p \in SignUpPasswords, q \in SignUpPasswords, t \in BOOLEAN :
           register_form_submit(1, e, p, q, t)
    \/ register_form_result(1)

SpecSignUp == Init /\ [][NextSignUp]_vars

\* two browser sessions of one account: login with and without "Remember
\* me", the profile form, Logout and Edit Profile, and launcher runs
NextLogout ==
    \E c \in Callers :
        \/ Pages(c, {EmailA}, {PwSecret}, {Profile(Ann, 2)})
        \/ launcher_run(c)

SpecLogout == Init /\ [][NextLogout]_vars

\* one account and its tokens up to and past the 30-day mark, and a browser
\* session that comes back holding a token
NextReturning ==
    \/ Register(1, {EmailA}, {PwSecret})
    \/ Tokens(1, {1})
    \/ Tick(Instants(EarlyHours \cup LateHours))
    \/ \E t \in TokenArgs : returning_session(2, t)
    \/ launcher_run(2)

SpecReturning == Init /\ [][NextReturning]_vars

\* the two agents generating from topics; the vector database may be
\* absent, and its searches may throw
AgentOps(a) ==
    \/ \E imported \in BOOLEAN, constructed \in BOOLEAN :
           agent_init(a, imported, constructed)
    \/ \E topic \in Topics : generate_begin(a, topic)
    \/ \E outcome \in SearchOutcomes : search_course_content(a, outcome)
    \/ \E outcome \in StructureOutcomes : get_course_structure(a, outcome)
    \/ generate_prompt(a)
    \/ \E ok \in BOOLEAN : generate_finish(a, ok)
    \/ generate_return(a)

NextAgents ==
    /\ \E a \in Agents : AgentOps(a)
    /\ UNCHANGED <<db, txn_owner, txn_db, pc, frame, now, tz, entropy,
                   issued, saved, session, form>>

SpecAgents == Init /\ [][NextAgents]_vars

(***************************************************************************)
(* Claims                                                                  *)
(***************************************************************************)
\* caller c's last call was `op` and has returned
Returned(c, op) == pc[c] = "idle" /\ frame[c].op = op

\* C1: when register_user(e, p) has succeeded with user_id u for an email and
\* a password the sign-up form accepts, and the very next call is
\* login_user(e, p), that call succeeds and returns user_id u and email e.
C1_RegisterThenLogin ==
    [][\A e \in Emails, p \in Passwords :
         (/\ validate_email(e)
          /\ validate_password(p)
          /\ Returned(1, "register_user")
          /\ frame[1].email = e
          /\ frame[1].password = p
          /\ frame[1].result.success
          /\ pc'[1] = "idle"
          /\ frame'[1].op = "login_user"
          /\ frame'[1].email = e
          /\ frame'[1].password = p)
         => /\ frame'[1].result.success
            /\ frame'[1].result.user_id = frame[1].result.user_id
            /\ frame'[1].result.email = e]_vars

\* the second account, registered with an accepted email and password, has
\* logged in and got its own id and email back
C1_Witness ==
    /\ Returned(1, "login_user")
    /\ validate_email(frame[1].email)
    /\ validate_password(frame[1].password)
    /\ frame[1].result.success
    /\ frame[1].result.user_id = 2
    /\ frame[1].result.email = frame[1].email
    /\ db.users[2].email = frame[1].email

RowsWithEmail(t, email) == {i \in UserIdsOf(t) : t.users[i].email = email}

DuplicateAccount == [success |-> FALSE, message |-> "Email already exists!"]

WrongPassword(c) ==
    \E i \in UserIdsOf(db) :
        /\ db.users[i].email = frame[c].email
        /\ db.users[i].password_hash # hash_password(frame[c].password)

\* the submitted email is not stored
NoSuchEmail(c) == \A i \in UserIdsOf(db) : db.users[i].email # frame[c].email

\* C3: login_user with a stored email and a wrong password, and login_user
\* with an email that is not stored, return one and the same value:
\* success false, the message "Invalid email or password!", no other field.
C3_LoginFailuresIdentical ==
    \A c \in Callers :
        (Returned(c, "login_user") /\ (WrongPassword(c) \/ NoSuchEmail(c)))
        => frame[c].result =
              [success |-> FALSE, message |-> "Invalid email or password!"]

\* caller 1 has logged in with a wrong password, caller 2 with an unknown
\* email, and both hold the same result
C3_Witness ==
    /\ Returned(1, "login_user")
    /\ Returned(2, "login_user")
    /\ WrongPassword(1)
    /\ NoSuchEmail(2)
    /\ frame[1].result = frame[2].result

\* the account of issued[k] was handed another token after issued[k]
Superseded(k) ==
    \E j \in (k + 1)..Len(issued) : issued[j].user_id = issued[k].user_id

\* what validate_remember_token returns for a valid token of account u
AccountOf(u) ==
    [success |-> TRUE, user_id |-> u, email |-> db.users[u].email,
     is_profile_complete |-> db.users[u].is_profile_complete]

\* C4: when create_remember_token has returned t1 and later t2 for one
\* account (and the account has not logged out since), validating t1 returns
\* success false and validating t2 returns the account's id, email and
\* profile-completion flag.
C4_SecondTokenInvalidatesFirst ==
    \A j \in 1..Len(issued), k \in 1..Len(issued) :
        (/\ j < k
         /\ issued[j].user_id = issued[k].user_id
         /\ issued[k].user_id \in UserIdsOf(db)
         /\ ~Superseded(k)
         /\ ~issued[k].logged_out)
        => /\ ~validate_remember_token_result(issued[j].token).success
           /\ validate_remember_token_result(issued[k].token)
                 = AccountOf(issued[k].user_id)

\* account 1 holds t1 then t2, the caller has just validated t1 and been
\* refused, and t2 is accepted
C4_Witness ==
    /\ Len(issued) = 2
    /\ issued[1].user_id = 1
    /\ issued[2].user_id = 1
    /\ 1 \in UserIdsOf(db)
    /\ Returned(1, "validate_remember_token")
    /\ frame[1].token = issued[1].token
    /\ frame[1].result = [success |-> FALSE]
    /\ validate_remember_token_result(issued[2].token).success

\* the rows of account u that validate_remember_token would still accept
LiveRows(t, u) ==
    {k \in 1..Len(t.remember_tokens) :
        /\ t.remember_tokens[k].user_id = u
        /\ TextGreater(t.remember_tokens[k].expires_at, CURRENT_TIMESTAMP)}

\* C5: after any sequence of register_user, login_user,
\* create_remember_token, validate_remember_token, save_student_profile and
\* logout_user calls, each account has at most one non-expired row in
\* remember_tokens.
C5_AtMostOneLiveToken ==
    \A u \in UserIds : Cardinality(LiveRows(db, u)) <= 1

\* account 1 has logged in, saved its profile and been handed two tokens,
\* and one live row is stored for it
C5_Witness ==
    /\ 1 \in UserIdsOf(db)
    /\ db.users[1].last_login # NULL
    /\ db.users[1].is_profile_complete
    /\ Len(issued) = 2
    /\ issued[1].user_id = 1
    /\ issued[2].user_id = 1
    /\ Cardinality(LiveRows(db, 1)) = 1

TokenRowsOf(t, u) ==
    {k \in 1..Len(t.remember_tokens) : t.remember_tokens[k].user_id = u}

\* the place of a returned token in the order of return
ReturnOrder(token) == CHOOSE k \in 1..Len(issued) : issued[k].token = token

\* C6: when two callers have run create_remember_token for the same account
\* with their steps interleaved and both have returned, exactly one token
\* row of that account is stored, it holds the token of the call that
\* committed last, and the token of the call that committed first is refused.
C6_ConcurrentIssueConverges ==
    \A c1 \in Callers, c2 \in Callers :
        (/\ c1 # c2
         /\ Returned(c1, "create_remember_token")
         /\ Returned(c2, "create_remember_token")
         /\ frame[c1].user_id = frame[c2].user_id
         /\ ReturnOrder(frame[c1].token) < ReturnOrder(frame[c2].token))
        => /\ Cardinality(TokenRowsOf(db, frame[c1].user_id)) = 1
           /\ \A k \in TokenRowsOf(db, frame[c1].user_id) :
                 db.remember_tokens[k].token = frame[c2].token
           /\ ~validate_remember_token_result(frame[c1].token).success

\* caller 2 drew its token first, caller 1 committed first, both have
\* returned, and the stored row is caller 2's
C6_Witness ==
    /\ Returned(1, "create_remember_token")
    /\ Returned(2, "create_remember_token")
    /\ frame[1].user_id = frame[2].user_id
    /\ frame[2].token < frame[1].token
    /\ ReturnOrder(frame[1].token) < ReturnOrder(frame[2].token)
    /\ 1 \in UserIdsOf(db)
    /\ validate_remember_token_result(frame[2].token).success

\* the instant a stored timestamp text denotes
ParseTimestamp(text) ==
    [hr |-> text[1], frac |-> IF Len(text) > 1 THEN text[2] ELSE 0]

TokenRows(t, token) ==
    {k \in 1..Len(t.remember_tokens) : t.remember_tokens[k].token = token}

\* C7: validate_remember_token returns success false for every token that is
\* not in storage, and for every stored token whose expires_at is at or
\* before the current time.
C7_ExpiredOrUnknownRejected ==
    \A t \in TokenArgs :
        /\ TokenRows(db, t) = {}
              => ~validate_remember_token_result(t).success
        /\ \A k \in TokenRows(db, t) :
              TimeLeq(ParseTimestamp(db.remember_tokens[k].expires_at), now)
              => ~validate_remember_token_result(t).success

\* C8: a token issued at instant t is stored with expires_at = t + 30 days
\* and, while its account exists and has neither been issued another token
\* nor logged out, is accepted at every instant before t + 30 days and
\* refused from t + 30 days on, all instants being read from one clock.
C8_ThirtyDayWindow ==
    \A k \in 1..Len(issued) :
        (/\ ~Superseded(k)
         /\ ~issued[k].logged_out
         /\ issued[k].user_id \in UserIdsOf(db))
        => LET deadline == PlusTokenDays(issued[k].at)
               accepted ==
                   validate_remember_token_result(issued[k].token).success
           IN  /\ \A r \in TokenRows(db, issued[k].token) :
                     ParseTimestamp(db.remember_tokens[r].expires_at) = deadline
               /\ TimeLess(now, deadline) => accepted
               /\ TimeLeq(deadline, now) => ~accepted

\* C9: a validate_remember_token call, whether it succeeds or fails, leaves
\* users, student_profiles and remember_tokens as they were: last_login is
\* not refreshed, expires_at is not extended, no token row is deleted.
C9_ValidateReadsOnly ==
    [][\A c \in Callers :
         (/\ pc[c] = "idle"
          /\ pc'[c] = "idle"
          /\ frame'[c].op = "validate_remember_token"
          /\ frame'[c] # frame[c])
         => db' = db /\ txn_db' = txn_db]_vars

\* the account has logged in and saved its profile, its token is past the
\* 30-day mark, the caller has validated it and been refused, and the row
\* is still stored
C9_Witness ==
    /\ Returned(1, "validate_remember_token")
    /\ frame[1].result = [success |-> FALSE]
    /\ TokenRows(db, frame[1].token) # {}
    /\ LiveRows(db, 1) = {}
    /\ 1 \in UserIdsOf(db)
    /\ db.users[1].last_login # NULL
    /\ ProfileRowsOf(db, 1) # {}

\* C10: a save_student_profile call with a year outside 1..4 writes nothing
\* at any of its steps (profile rows, their fields and is_profile_complete
\* stay as they were) and returns success false.
C10_BadYearWritesNothing ==
    [][(/\ pc[1] # "idle"
        /\ frame[1].op = "save_student_profile"
        /\ frame[1].profile_data.year \notin 1..4)
       => /\ db' = db
          /\ pc'[1] = "idle" => ~frame'[1].result.success]_vars

\* account 1 has a saved profile, a save with year 5 has been refused, and
\* the stored row and the flag are those of the earlier save
C10_Witness ==
    /\ Returned(1, "save_student_profile")
    /\ frame[1].user_id = 1
    /\ frame[1].profile_data.year = 5
    /\ ~frame[1].result.success
    /\ 1 \in UserIdsOf(db)
    /\ db.users[1].is_profile_complete
    /\ \A k \in ProfileRowsOf(db, 1) : db.student_profiles[k].year = 4
    /\ ProfileRowsOf(db, 1) # {}

\* a save all of whose fields are valid
AllValid(profile_data) ==
    /\ profile_data.year \in 1..4
    /\ missing_fields(profile_data) = {}

\* C11: a save_student_profile call for an existing account with all fields
\* valid returns success, and get_student_profile for that account then
\* returns exactly the eight values of that save, whether the row was
\* inserted or updated; no other step changes a stored profile.
C11_SaveThenGet ==
    [][/\ (/\ pc[1] = "save_commit" \/ pc[1] = "save_except"
           /\ frame[1].op = "save_student_profile"
           /\ AllValid(frame[1].profile_data)
           /\ frame[1].user_id \in UserIdsOf(db)
           /\ pc'[1] = "idle")
          => /\ frame'[1].result.success
             /\ get_student_profile_result(frame[1].user_id)'
                   = [success |-> TRUE, profile |-> frame[1].profile_data]
       /\ db'.student_profiles # db.student_profiles
          => pc[1] = "save_commit"]_vars

\* the account had a profile, a save with other values in all eight fields
\* has updated it and returned, and get_student_profile returns those values
C11_Witness ==
    /\ Returned(1, "save_student_profile")
    /\ frame[1].user_id = 1
    /\ 1 \in UserIdsOf(db)
    /\ frame[1].existing_profile
    /\ frame[1].profile_data = ProfileBo
    /\ frame[1].result.success
    /\ get_student_profile_result(1) = [success |-> TRUE, profile |-> ProfileBo]

\* C12: a save_student_profile call in whose input one of name, course,
\* interests, goals, hobbies, learning_style, current_skills is empty or
\* only whitespace writes neither student_profiles nor users at any of its
\* steps, and returns success false.
C12_BlankFieldsRejected ==
    [][(/\ pc[1] # "idle"
        /\ frame[1].op = "save_student_profile"
        /\ missing_fields(frame[1].profile_data) # {})
       => /\ db'.student_profiles = db.student_profiles
          /\ db'.users = db.users
          /\ pc'[1] = "idle" => ~frame'[1].result.success]_vars

\* C13: with one caller at a time, every account whose is_profile_complete
\* flag is true has exactly one student_profiles row with its user_id.
C13_CompleteHasOneProfile ==
    \A u \in UserIdsOf(db) :
        db.users[u].is_profile_complete
        => Cardinality(ProfileRowsOf(db, u)) = 1

\* account 1 is complete after a second successful save, which found the
\* row of the first, and still has one row
C13_Witness ==
    /\ Returned(1, "save_student_profile")
    /\ frame[1].user_id = 1
    /\ frame[1].existing_profile
    /\ frame[1].result.success
    /\ 1 \in UserIdsOf(db)
    /\ db.users[1].is_profile_complete
    /\ Cardinality(ProfileRowsOf(db, 1)) = 1

\* C14: whatever the interleaving of the existence check, the insert or
\* update and the commit of two save_student_profile calls for one account
\* that has no profile yet, the account never has two student_profiles rows.
C14_ConcurrentSaveOneRow ==
    \A u \in UserIdsOf(db) : Cardinality(ProfileRowsOf(db, u)) <= 1

\* C15: every student_profiles row and every remember_tokens row carries the
\* user_id of a stored account, also after save_student_profile or
\* create_remember_token was called with a user_id that has no users row.
C15_RowsHaveAccounts ==
    /\ \A k \in 1..Len(db.student_profiles) :
          db.student_profiles[k].user_id \in UserIdsOf(db)
    /\ \A k \in 1..Len(db.remember_tokens) :
          db.remember_tokens[k].user_id \in UserIdsOf(db)

\* C16: in every reachable state an account's is_profile_complete flag is
\* true exactly when a save_student_profile call for its user_id has
\* returned success (false at registration, true from the first successful
\* save on).
C16_CompleteIffSaved ==
    \A u \in UserIdsOf(db) : db.users[u].is_profile_complete <=> u \in saved

\* the state of caller c's session
SessionState(c) ==
    IF ~session[c].authenticated THEN "Anonymous"
    ELSE IF session[c].user_data.is_profile_complete
         THEN "Authenticated-Complete"
         ELSE "Authenticated-Incomplete"

Authenticated == {"Authenticated-Incomplete", "Authenticated-Complete"}

\* the step completes a successful register_user, login_user or
\* save_student_profile call of caller c, or is its logout
RegisterSucceeds(c) == pc[c] = "register_commit" /\ pc'[c] = "idle"

LoginSucceeds(c) ==
    /\ pc[c] = "idle" /\ pc'[c] = "idle"
    /\ frame'[c].op = "login_user"
    /\ frame'[c].result.success
    /\ SessionState(c) = "Anonymous"
    /\ session'[c] # session[c]

SaveSucceeds(c) == pc[c] = "save_commit" /\ pc'[c] = "idle"

LogsOut(c) ==
    /\ pc[c] = "idle" /\ pc'[c] = "idle"
    /\ frame'[c].op = "logout_user"
    /\ SessionState(c) \in Authenticated
    /\ session'[c] = NoSession

\* C17: a session goes from Anonymous to Authenticated-Incomplete on a
\* successful register or login, from Authenticated-Incomplete to
\* Authenticated-Complete on a successful save of the profile, from an
\* authenticated state to Anonymous on logout, and makes no other
\* transition.
C17_SessionMachine ==
    [][\A c \in Callers :
         /\ SessionState(c) = "Anonymous" /\ (RegisterSucceeds(c) \/ LoginSucceeds(c))
            => SessionState(c)' = "Authenticated-Incomplete"
         /\ SessionState(c) = "Authenticated-Incomplete" /\ SaveSucceeds(c)
            => SessionState(c)' = "Authenticated-Complete"
         /\ SessionState(c)' # SessionState(c)
            => \/ /\ SessionState(c) = "Anonymous"
                  /\ SessionState(c)' = "Authenticated-Incomplete"
                  /\ RegisterSucceeds(c) \/ LoginSucceeds(c)
               \/ /\ SessionState(c) = "Authenticated-Incomplete"
                  /\ SessionState(c)' = "Authenticated-Complete"
                  /\ SaveSucceeds(c)
               \/ /\ SessionState(c) \in Authenticated
                  /\ SessionState(c)' = "Anonymous"
                  /\ LogsOut(c)]_vars

\* the step is the Edit Profile button of caller c's main page
EditsProfile(c) == UNCHANGED <<db, frame, pc>> /\ session'[c] # session[c]

\* C17 as amended: a session goes from Anonymous to Authenticated-Incomplete
\* or Authenticated-Complete, according to the account's stored
\* is_profile_complete, on a successful login; a successful register leaves
\* it Anonymous; it goes from Authenticated-Incomplete to
\* Authenticated-Complete on a successful save of the profile, from
\* Authenticated-Complete to Authenticated-Incomplete on Edit Profile, from
\* an authenticated state to Anonymous on logout, and makes no other
\* transition.
C17_SessionMachineAmended ==
    [][\A c \in Callers :
         /\ SessionState(c) = "Anonymous" /\ RegisterSucceeds(c)
            => SessionState(c)' = "Anonymous"
         /\ SessionState(c) = "Anonymous" /\ LoginSucceeds(c)
            => SessionState(c)' =
                  IF db.users[frame'[c].result.user_id].is_profile_complete
                  THEN "Authenticated-Complete"
                  ELSE "Authenticated-Incomplete"
         /\ SessionState(c) = "Authenticated-Incomplete" /\ SaveSucceeds(c)
            => SessionState(c)' = "Authenticated-Complete"
         /\ SessionState(c)' # SessionState(c)
            => \/ /\ SessionState(c) = "Anonymous"
                  /\ SessionState(c)' \in Authenticated
                  /\ LoginSucceeds(c)
               \/ /\ SessionState(c) = "Authenticated-Incomplete"
                  /\ SessionState(c)' = "Authenticated-Complete"
                  /\ SaveSucceeds(c)
               \/ /\ SessionState(c) = "Authenticated-Complete"
                  /\ SessionState(c)' = "Authenticated-Incomplete"
                  /\ EditsProfile(c)
               \/ /\ SessionState(c) \in Authenticated
                  /\ SessionState(c)' = "Anonymous"
                  /\ LogsOut(c)]_vars

\* a login has just taken the session of an account with a saved profile
\* from Anonymous straight to Authenticated-Complete
C17_Witness ==
    /\ Returned(1, "login_user")
    /\ frame[1].result.success
    /\ frame[1].result.is_profile_complete
    /\ SessionState(1) = "Authenticated-Complete"
    /\ session[1].handler = "none"

\* the step is the return of a register_user call of caller c
RegisterReturns(c) ==
    /\ pc'[c] = "idle"
    /\ frame'[c].op = "register_user"
    /\ \/ pc[c] \in {"register_commit", "register_IntegrityError"}
       \/ pc[c] = "idle" /\ frame'[c] # frame[c]

DuplicateMessage == "Email already exists!"

C19_EmailsAndIdsUnique ==
    [][/\ \A i, j \in UserIdsOf(db') :
             db'.users[i].email = db'.users[j].email => i = j
       /\ \A i \in UserIdsOf(db) :
             i \in UserIdsOf(db') /\ db'.users[i].email = db.users[i].email
       /\ \A c \in Callers :
             (RegisterReturns(c) /\ frame'[c].result.success)
             => /\ frame'[c].result.user_id \notin UserIdsOf(db)
                /\ frame'[c].result.user_id \in UserIdsOf(db')
                /\ db'.users[frame'[c].result.user_id].email
                      = frame'[c].email]_vars

\* both emails are registered, under different ids, and a later call for
\* one of them has been refused
C19_Witness ==
    /\ Len(db.users) = 2
    /\ db.users[1].email # db.users[2].email
    /\ \E c \in Callers :
          /\ Returned(c, "register_user")
          /\ frame[c].result = [success |-> FALSE, message |-> DuplicateMessage]

\* the step is a logout_user call of caller c
LogoutStep(c) ==
    /\ pc[c] = "idle" /\ pc'[c] = "idle"
    /\ frame'[c].op = "logout_user"
    /\ frame'[c] # frame[c] \/ db' # db

\* the remember_tokens rows of accounts other than user_id
TokensOfOthers(t, user_id) ==
    SelectSeq(t.remember_tokens, LAMBDA r : r.user_id # user_id)

\* C20: logout_user(user_id) returns success, removes every remember_tokens
\* row of that account and no other row of any table; for an account with
\* no token row it leaves storage unchanged, and a second call leaves the
\* storage the first call left.
C20_LogoutDeletesOwnTokens ==
    [][\A c \in Callers :
         LogoutStep(c)
         => LET u == frame'[c].user_id
            IN  /\ frame'[c].result.success
                /\ db'.remember_tokens = TokensOfOthers(db, u)
                /\ db'.users = db.users
                /\ db'.student_profiles = db.student_profiles
                /\ TokensOfOthers(db, u) = db.remember_tokens => db' = db
                /\ DeleteTokens(db', u) = db']_vars

\* account 1, which had been issued a token, has logged out: none of its
\* rows is left and the row of account 2 is still stored
C20_Witness ==
    /\ Returned(1, "logout_user")
    /\ frame[1].user_id = 1
    /\ \E k \in 1..Len(issued) : issued[k].user_id = 1 /\ issued[k].logged_out
    /\ \A k \in 1..Len(db.remember_tokens) : db.remember_tokens[k].user_id = 2
    /\ db.remember_tokens # <<>>

\* the step is a login_user call of caller c
LoginStep(c) ==
    /\ pc[c] = "idle" /\ pc'[c] = "idle"
    /\ frame'[c].op = "login_user"
    /\ frame'[c] # frame[c] \/ db' # db

GetProfileStep(c) ==
    /\ pc[c] = "idle" /\ pc'[c] = "idle"
    /\ frame'[c].op = "get_student_profile"
    /\ frame'[c] # frame[c]

\* C22: get_student_profile changes nothing in storage; for an account
\* for which no save_student_profile has succeeded it returns
\* [success = false, message = "Profile not found"], and for an account for
\* which one has succeeded it returns success with a profile.
C22_GetProfileReadsSaved ==
    [][\A c \in Callers :
          GetProfileStep(c)
          => /\ db' = db
             /\ IF frame'[c].user_id \in saved
                THEN /\ frame'[c].result.success
                     /\ "profile" \in DOMAIN frame'[c].result
                ELSE frame'[c].result =
                        [success |-> FALSE, message |-> "Profile not found"]]_vars

\* the profile of the second account was read after its save succeeded,
\* while the first account is registered and has saved none
C22_Witness ==
    /\ Returned(1, "get_student_profile")
    /\ frame[1].user_id = 2
    /\ frame[1].result.success
    /\ saved = {2}
    /\ UserIdsOf(db) = {1, 2}

\* the step is the sign-up form of caller c calling register_user
RegisterCallStep(c) ==
    /\ pc[c] = "idle" /\ pc'[c] # "idle"
    /\ frame'[c].op = "register_user"

\* the five conditions on a submission of the sign-up form
ValidSignUp(f) ==
    /\ f.new_email # <<>> /\ f.new_password # <<>> /\ f.confirm_password # <<>>
    /\ validate_email(f.new_email)
    /\ f.new_password = f.confirm_password
    /\ f.terms_accepted
    /\ Len(f.new_password) >= MinPasswordLen

\* C23: the sign-up form calls register_user only with the email and the
\* password of a submission in which the three fields are non-empty, the
\* email matches the address pattern, the password equals its confirmation,
\* the terms are accepted and the password has at least 6 characters; a
\* submission failing one of these calls no method and leaves storage as it
\* is, so no account is created.
C23_SignUpValidated ==
    [][\A c \in Callers :
          /\ RegisterCallStep(c)
             => /\ ValidSignUp(form'[c])
                /\ frame'[c].email = form'[c].new_email
                /\ frame'[c].password = form'[c].new_password
          /\ (form'[c] # form[c] /\ ~ValidSignUp(form'[c]))
             => /\ ~RegisterCallStep(c)
                /\ UNCHANGED <<db, txn_db, txn_owner, pc, frame>>]_vars

\* an account exists, and the form has just refused a submission whose
\* confirmation differs from the password
C23_Witness ==
    /\ Len(db.users) = 1
    /\ pc[1] = "idle"
    /\ form[1].message = "Passwords do not match!"
    /\ form[1].new_email = EmailB
    /\ form[1].terms_accepted
    /\ ~EmailTaken(db, EmailB)

\* the step is agent a's call of search_course_content
SearchStep(a) == agent[a].pc = "search" /\ agent'[a].pc # "search"

\* C24: search_course_content never raises: without a vector database
\* (the import or the construction failed) and when the underlying search
\* throws it returns None; the generation of flashcards and of study
\* plans then goes on to its prompt from general knowledge, and fails only
\* in the steps after the prompt.
C24_SearchDegrades ==
    [][\A a \in Agents :
          /\ SearchStep(a)
             => /\ agent'[a].pc \in {"searched", "structure"}
                /\ agent'[a].error = ""
                /\ (agent[a].faiss_db = None \/ agent'[a].searched.raises)
                   => agent'[a].course_content = None
          /\ (agent[a].pc = "searched" /\ agent[a].course_content = None
                 /\ agent'[a] # agent[a])
             => /\ agent'[a].pc = "prompted"
                /\ agent'[a].prompt = "general knowledge"
          /\ (agent[a].pc # "failed" /\ agent'[a].pc = "failed")
             => agent[a].pc = "prompted"]_vars

\* the planner has a vector database whose search threw, and its study
\* plan was generated from general knowledge; the flashcard agent has no
\* database and is past its search
C24_Witness ==
    /\ agent["planner"].faiss_db # None
    /\ agent["planner"].searched # None
    /\ agent["planner"].searched.raises
    /\ agent["planner"].pc = "done"
    /\ agent["planner"].prompt = "general knowledge"
    /\ agent["flashcard"].faiss_db = None
    /\ agent["flashcard"].pc = "prompted"

\* C25: on every run of the launcher the main page is loaded only for a
\* session that is authenticated and whose is_profile_complete flag is
\* true; a session that is not authenticated gets the login/sign-up page,
\* and an authenticated session whose flag is false gets the profile page.
C25_Routing ==
    \A c \in Callers :
        LET s == check_authentication(session[c])
            p == page(session[c])
            flag == s.user_data # None /\ s.user_data.is_profile_complete
        IN  /\ p = "main" => s.authenticated /\ flag
            /\ ~s.authenticated => p = "auth"
            /\ (s.authenticated /\ ~flag) => p = "profile"

\* after Edit Profile: the session is authenticated, its flag is false
\* while the stored flag of its account is true, and the launcher loads the
\* profile page
C25_Witness ==
    /\ session[1].authenticated
    /\ session[1].handler = "none"
    /\ ~session[1].user_data.is_profile_complete
    /\ db.users[session[1].user_data.user_id].is_profile_complete
    /\ page(session[1]) = "profile"

\* session c is not authenticated and holds a remember token
TokenHeld(c) ==
    /\ ~session[c].authenticated
    /\ session[c].remember_token # <<>>

LoggedOutTokensDead ==
    \A k \in 1..Len(issued) :
        issued[k].logged_out
        => ~validate_remember_token_result(issued[k].token).success

\* a session that is not authenticated holds no token, so that a launcher
\* run leaves it not authenticated
AnonymousHoldsNoToken ==
    \A c \in Callers :
        ~session[c].authenticated
        => /\ session[c].remember_token = <<>>
           /\ ~check_authentication(session[c]).authenticated

\* C27: the Logout of a session leaves that session not authenticated and
\* without a remember token; a session that is not authenticated becomes
\* authenticated in no step but a successful login_user of its login form
\* (launcher runs leave it as it is); and every token issued to the account
\* before the logout, whichever session holds it, fails validation from
\* then on.
C27_LogoutIsFinal ==
    [][/\ \A c \in Callers :
             /\ (/\ pc[c] = "idle" /\ pc'[c] = "idle"
                 /\ frame'[c].op = "logout_user"
                 /\ session[c].authenticated)
                => session'[c] = NoSession
             /\ (~session[c].authenticated /\ session'[c].authenticated)
                => /\ pc[c] = "idle" /\ pc'[c] = "idle"
                   /\ frame'[c].op = "login_user"
                   /\ frame'[c].result.success
       /\ AnonymousHoldsNoToken /\ AnonymousHoldsNoToken'
       /\ LoggedOutTokensDead /\ LoggedOutTokensDead']_vars

\* session 1 has logged out of the account; the token it held was issued
\* before the logout and is refused, while session 2, still authenticated
\* as the same account, holds that token
C27_Witness ==
    /\ Returned(1, "logout_user")
    /\ session[1] = NoSession
    /\ session[2].authenticated
    /\ session[2].remember_token # <<>>
    /\ \E k \in 1..Len(issued) :
          /\ issued[k].logged_out
          /\ issued[k].token = session[2].remember_token[1]
          /\ ~validate_remember_token_result(issued[k].token).success

\* C28: when the is_profile_complete flag of a session is true, the stored
\* flag of the session's account is true and a profile row of that account
\* is stored (the session flag may be false while the stored one is true).
C28_SessionFlagBacked ==
    \A c \in Callers :
        (/\ session[c].authenticated
         /\ session[c].user_data # None
         /\ session[c].user_data.is_profile_complete)
        => LET u == session[c].user_data.user_id
           IN  /\ u \in UserIdsOf(db)
               /\ db.users[u].is_profile_complete
               /\ ProfileRowsOf(db, u) # {}

\* session 1 has just saved the profile through the form and its flag is
\* true; session 2, logged in to the same account before the save, still
\* has its flag false
C28_Witness ==
    /\ Returned(1, "save_student_profile")
    /\ session[1].authenticated
    /\ session[1].user_data.is_profile_complete
    /\ session[2].authenticated
    /\ session[2].user_data.user_id = session[1].user_data.user_id
    /\ ~session[2].user_data.is_profile_complete
    /\ db.users[session[1].user_data.user_id].is_profile_complete

\* user_data names the id and the email of a stored account
NamesAccount(user_data) ==
    /\ user_data # None
    /\ user_data.user_id \in UserIdsOf(db)
    /\ db.users[user_data.user_id].email = user_data.email

\* C29: in every session state, before and after check_authentication,
\* authenticated implies that user_data is set and names the id and the
\* email of a stored account; the launcher therefore loads the main page
\* for no session whose user_data is missing.
C29_AuthenticatedHasUser ==
    \A c \in Callers :
        LET s == check_authentication(session[c])
        IN  /\ session[c].authenticated => NamesAccount(session[c].user_data)
            /\ s.authenticated => NamesAccount(s.user_data)
            /\ page(session[c]) = "main" => s.user_data # None

\* both sessions are authenticated as the account registered, the first
\* is routed to the main page and the second to the profile page
C29_Witness ==
    /\ session[1].authenticated /\ session[2].authenticated
    /\ session[1].user_data.user_id = 1
    /\ session[2].user_data.user_id = 1
    /\ session[1].user_data.email = EmailA
    /\ page(session[1]) = "main"
    /\ page(session[2]) = "profile"

\* the token session c holds was issued to the account c is logged in as
HeldTokenIsOwn(c) ==
    session[c].remember_token # <<>>
    => /\ session[c].authenticated
       /\ \E k \in 1..Len(issued) :
             /\ issued[k].token = session[c].remember_token[1]
             /\ issued[k].user_id = session[c].user_data.user_id

\* C30: the login form calls create_remember_token only right after a
\* login_user of the same submission succeeded with "Remember me" checked,
\* and for the account that logged in; the remember_token a session holds
\* was issued to the account the session is logged in as; a failed
\* login_user is followed by no token and leaves the session not
\* authenticated.
C30_TokenAfterLogin ==
    [][\A c \in Callers :
          /\ (/\ pc[c] = "idle" /\ pc'[c] = "token_delete")
             => /\ frame[c].op = "login_user"
                /\ frame[c].result.success
                /\ session[c].handler = "remember"
                /\ session[c].authenticated
                /\ frame'[c].user_id = frame[c].result.user_id
                /\ frame'[c].user_id = session[c].user_data.user_id
          /\ (/\ pc[c] = "idle" /\ pc'[c] = "idle"
              /\ frame'[c].op = "login_user"
              /\ frame'[c] # frame[c]
              /\ ~frame'[c].result.success)
             => /\ ~session'[c].authenticated
                /\ session'[c].handler = "none"
                /\ session'[c].remember_token = <<>>
                /\ UNCHANGED <<db, txn_db, entropy, issued>>
          /\ (frame[c].op = "login_user" /\ ~frame[c].result.success)
             => pc'[c] # "token_delete"
          /\ HeldTokenIsOwn(c) /\ HeldTokenIsOwn(c)']_vars

\* the session logged in to the second account with "Remember me" and
\* holds the token issued to that account, after a token had been issued
\* to the first account
C30_Witness ==
    /\ session[1].authenticated
    /\ session[1].handler = "none"
    /\ session[1].user_data.user_id = 2
    /\ session[1].remember_token # <<>>
    /\ Len(issued) = 2
    /\ issued[1].user_id = 1
    /\ issued[2].user_id = 2
    /\ issued[2].token = session[1].remember_token[1]

====
